---- MODULE Spec2Model ----
(***************************************************************************)
(* Model of the QUIC header parser (HeaderParser) and its datagram         *)
(* splitter.  Buffers are sequences of bytes (0..255); buffer offsets are  *)
(* 0-based as in the source, so the byte at offset o of b is b[o + 1].     *)
(***************************************************************************)
EXTENDS Integers, Sequences, FiniteSets, TLC

VARIABLES
    buf,            \* the datagram handed to parse(buf)
    pc,             \* position in parse: "call", "loop", "done", "failed"
    headerOffsets,  \* local headerOffsets of parse
    headerOffset,   \* local headerOffset of parse (most recently parsed)
    totalSize,      \* local totalSize of parse
    starts,         \* offsets passed to parseHeader, one per appended entry
    returned,       \* value returned by parse (only when pc = "done")
    error,          \* kind of the exception that left parse ("none" if none)
    settingsParameters, \* Http3SettingsFrame.settingsParameters
    frame,          \* result of Http3SettingsFrame.toBuffer
    settingsBuffer, \* buffer handed to Http3SettingsFrame.fromPayload
    params,         \* local params of parseParameters
    poffset,        \* local offset of parseParameters
    spc,            \* position of the settings frame: "idle", "new",
                    \* "serialized", "parsing", "parsed", "failed"
    dependencyTree, \* Http3FIFOScheme.dependencyTree: parent of every stream
    tailStreamID,   \* Http3FIFOScheme.tailStreamID
    priorityFrame,  \* frame returned by the last applyScheme
    applied,        \* streams handed to applyScheme, in call order
    removed,        \* streams whose node was removed from the tree
    handled         \* number of handlePriorityFrame calls so far

parserVars == <<buf, pc, headerOffsets, headerOffset, totalSize, starts, returned, error>>
settingsVars == <<settingsParameters, frame, settingsBuffer, params, poffset, spc>>
fifoVars == <<dependencyTree, tailStreamID, priorityFrame, applied, removed, handled>>
vars == <<parserVars, settingsVars, fifoVars>>

(***************************************************************************)
(* Bounds of the input space.                                              *)
(***************************************************************************)
MaxPackets == 2     \* packets concatenated into one datagram
MaxPayload == 1     \* declared / actual payload bytes per packet
MaxSettings == 2    \* parameters of one settings frame
MaxStreams == 3     \* request streams of one connection
MaxApplies == 4     \* applyScheme calls on one scheme
MaxFrames == 1      \* priority frames handed to handlePriorityFrame

(***************************************************************************)
(* Buffer primitives (Node Buffer semantics at the call sites).            *)
(***************************************************************************)
Min(a, b) == IF a < b THEN a ELSE b

\* buf.slice(start, end): both ends are clamped to the buffer, never throws.
slice(b, start, end) ==
    LET s == Min(start, Len(b))
        e == Min(end, Len(b))
    IN  IF s >= e THEN <<>> ELSE SubSeq(b, s + 1, e)

\* readUInt8 / readUIntBE(offset, 1) throw a RangeError unless this holds.
InRange(b, offset) == offset >= 0 /\ offset + 1 <= Len(b)

readUInt8(b, offset) == b[offset + 1]

\* Buffer.alloc(n) then buf.copy(target, 0, start, start + n): the target is
\* zero-filled and only the bytes the source still has are copied.
allocCopy(b, start, n) ==
    [i \in 1..n |-> IF start + i <= Len(b) THEN b[start + i] ELSE 0]

RECURSIVE BigEndian(_)
BigEndian(bytes) ==
    IF bytes = <<>> THEN 0
    ELSE BigEndian(SubSeq(bytes, 1, Len(bytes) - 1)) * 256 + bytes[Len(bytes)]

(***************************************************************************)
(* Results of the parsing functions: a value or a thrown error.            *)
(***************************************************************************)
Undefined == -1
UndefinedBytes == <<Undefined>>

Fail(e) == [ok |-> FALSE, error |-> e]

(***************************************************************************)
(* Collaborators whose source is not part of the parser file.              *)
(***************************************************************************)
\* VLIE.decode(buffer, offset): top 2 bits of the first byte select the
\* length L in {1,2,4,8}; fails when fewer than L bytes remain.
VLIEdecode(b, offset) ==
    IF ~InRange(b, offset) THEN Fail("TruncatedInput")
    ELSE LET first == readUInt8(b, offset)
             L == 2 ^ (first \div 64)
         IN  IF offset + L > Len(b) THEN Fail("TruncatedInput")
             ELSE [ok |-> TRUE,
                   value |-> BigEndian(<<first % 64>> \o slice(b, offset + 1, offset + L)),
                   offset |-> offset + L]

\* new Version(bytes): a version is exactly 4 bytes.
VersionValid(bytes) == Len(bytes) = 4

\* new ConnectionID(bytes, length): length is 0 or 4..18.
ConnectionIDValid(length) == length = 0 \/ length \in 4..18

\* new PacketNumber(bytes): wraps the slice, whatever its length.
PacketNumber(bytes) == bytes

\* VersionValidation.IsVersionNegotationFlag(version): the all-zero version.
IsVersionNegotationFlag(version) == version = <<0, 0, 0, 0>>

\* enum ShortHeaderType
OneOctet == 0
TwoOctet == 1
FourOctet == 2

(***************************************************************************)
(* parseLongHeader                                                         *)
(***************************************************************************)
\* Variant: the length is the nibble plus 4.
conLengthPlus4(nibble) == IF nibble = 0 THEN nibble ELSE nibble + 4

\* DCIL / SCIL nibble to length in bytes.
conLength(nibble) == IF nibble = 0 THEN nibble ELSE nibble + 3

\* Variant: the payload length and packet number are read whatever the version.
longHeaderTailAlways(b, offset, version) ==
    LET vlieOffset == VLIEdecode(b, offset)
    IN  IF ~vlieOffset.ok THEN Fail(vlieOffset.error)
        ELSE [ok |-> TRUE,
              payloadLength |-> vlieOffset.value,
              packetNumber |-> PacketNumber(slice(b, vlieOffset.offset, vlieOffset.offset + 4)),
              offset |-> vlieOffset.offset + 4]

\* Payload length and packet number, absent for version negotiation.
longHeaderTail(b, offset, version) ==
    IF ~IsVersionNegotationFlag(version)
    THEN LET vlieOffset == VLIEdecode(b, offset)
         IN  IF ~vlieOffset.ok THEN Fail(vlieOffset.error)
             ELSE [ok |-> TRUE,
                   payloadLength |-> vlieOffset.value,
                   packetNumber |-> PacketNumber(slice(b, vlieOffset.offset, vlieOffset.offset + 4)),
                   offset |-> vlieOffset.offset + 4]
    ELSE [ok |-> TRUE, payloadLength |-> Undefined,
          packetNumber |-> UndefinedBytes, offset |-> offset]

parseLongHeader(b, offset) ==
    LET startOffset == offset
    IN  IF ~InRange(b, offset) THEN Fail("TruncatedInput")
        ELSE
        LET type == readUInt8(b, offset) - 128
            o1 == offset + 1
            version == slice(b, o1, o1 + 4)
            o2 == o1 + 4
        IN  IF ~VersionValid(version) THEN Fail("InvalidFieldLength")
            ELSE IF ~InRange(b, o2) THEN Fail("TruncatedInput")
            ELSE
            LET conLengths == readUInt8(b, o2)
                o3 == o2 + 1
                destLength == conLength(conLengths \div 16)
                srcLength == conLength(conLengths % 16)
                destConnectionID == slice(b, o3, o3 + destLength)
                o4 == o3 + destLength
                srcConnectionID == slice(b, o4, o4 + srcLength)
                o5 == o4 + srcLength
                tail == longHeaderTail(b, o5, version)
            IN  IF ~(ConnectionIDValid(destLength) /\ ConnectionIDValid(srcLength))
                THEN Fail("InvalidFieldLength")
                ELSE IF ~tail.ok THEN Fail(tail.error)
                ELSE [ok |-> TRUE,
                      header |-> [headerType |-> "Long",
                                  type |-> type,
                                  version |-> version,
                                  destConnectionID |-> destConnectionID,
                                  destLength |-> destLength,
                                  srcConnectionID |-> srcConnectionID,
                                  srcLength |-> srcLength,
                                  packetNumber |-> tail.packetNumber,
                                  payloadLength |-> tail.payloadLength,
                                  parsedBuffer |-> slice(b, startOffset, tail.offset)],
                      offset |-> tail.offset]

(***************************************************************************)
(* parseShortHeader                                                        *)
(***************************************************************************)
\* Variant: the mask keeps 4 bits instead of 2.
correctShortHeaderTypeWide(type) == type % 16

correctShortHeaderType(type) == type % 4

getShortHeaderPacketNumber(type, buffer, offset) ==
    CASE type = OneOctet  -> [ok |-> TRUE, value |-> PacketNumber(slice(buffer, offset, offset + 1))]
      [] type = TwoOctet  -> [ok |-> TRUE, value |-> PacketNumber(slice(buffer, offset, offset + 2))]
      [] type = FourOctet -> [ok |-> TRUE, value |-> PacketNumber(slice(buffer, offset, offset + 4))]
      [] OTHER -> Fail("InvalidPacketNumberWidth")

\* Offset at which the destination connection ID bytes are taken, given the
\* offset of the length byte (the length byte is read without advancing).
destConIDStart(lengthOffset) == lengthOffset

parseShortHeader(b, offset) ==
    LET startOffset == offset
    IN  IF ~InRange(b, offset) THEN Fail("TruncatedInput")
        ELSE
        LET first == readUInt8(b, offset)
            o1 == offset + 1
            keyPhaseBit == (first \div 64) % 2 = 1
            spinBit == (first \div 4) % 2 = 1
            type == correctShortHeaderType(first)
        IN  IF ~InRange(b, o1) THEN Fail("TruncatedInput")
            ELSE
            LET destLen == readUInt8(b, o1)
                cidStart == destConIDStart(o1)
                destConIDBuffer == allocCopy(b, cidStart, destLen)
                o2 == cidStart + destLen
                packetNumber == getShortHeaderPacketNumber(type, b, o2)
                o3 == o2 + 2 ^ type
            IN  IF ~ConnectionIDValid(destLen) THEN Fail("InvalidFieldLength")
                ELSE IF ~packetNumber.ok THEN Fail(packetNumber.error)
                ELSE [ok |-> TRUE,
                      header |-> [headerType |-> "Short",
                                  type |-> type,
                                  destConnectionID |-> destConIDBuffer,
                                  destLength |-> destLen,
                                  packetNumber |-> packetNumber.value,
                                  payloadLength |-> Undefined,
                                  keyPhaseBit |-> keyPhaseBit,
                                  spinBit |-> spinBit,
                                  parsedBuffer |-> slice(b, startOffset, o3)],
                      offset |-> o3]

(***************************************************************************)
(* parseHeader                                                             *)
(***************************************************************************)
\* Variant: the header form is taken from bit 6 instead of bit 7.
parseHeaderWrongBit(b, offset) ==
    IF ~InRange(b, offset) THEN Fail("TruncatedInput")
    ELSE IF (readUInt8(b, offset) \div 64) % 2 = 1
         THEN parseLongHeader(b, offset)
         ELSE parseShortHeader(b, offset)

parseHeader(b, offset) ==
    IF ~InRange(b, offset) THEN Fail("TruncatedInput")
    ELSE IF readUInt8(b, offset) \div 128 = 1
         THEN parseLongHeader(b, offset)
         ELSE parseShortHeader(b, offset)

\* interface HeaderOffset
HeaderOffset(r) == [header |-> r.header, offset |-> r.offset]

(***************************************************************************)
(* parse: the datagram splitter                                            *)
(***************************************************************************)
NoHeaderOffset == [header |-> [headerType |-> "None", payloadLength |-> Undefined], offset |-> 0]

\* Variant: the loop goes on after any header but a version negotiation.
LoopCondNoTypeCheck(ho) ==
    ho.header.headerType = "Short" \/ ho.header.payloadLength # Undefined

\* Condition of the while loop.
LoopCond(ho) ==
    ho.header.headerType = "Long" /\ ho.header.payloadLength # Undefined

\* Variant: the accumulation forgets the payload length.
NextTotalSizeNoPayload(total, ho) ==
    LET headerSize == ho.offset - total
    IN  IF ho.header.payloadLength # Undefined THEN total + headerSize ELSE total

\* Variant: the accumulation forgets the header size.
NextTotalSizeNoHeader(total, ho) ==
    LET payloadLength == ho.header.payloadLength
    IN  IF payloadLength # Undefined THEN total + payloadLength ELSE total

\* Variant: the accumulation counts one byte too many.
NextTotalSizeOffByOne(total, ho) ==
    LET payloadLength == ho.header.payloadLength
        headerSize == ho.offset - total
    IN  IF payloadLength # Undefined
        THEN total + payloadLength + headerSize + 1
        ELSE total

\* Variant: the accumulation restarts from the payload length alone.
NextTotalSizeRestart(total, ho) ==
    LET payloadLength == ho.header.payloadLength
    IN  IF payloadLength # Undefined THEN payloadLength ELSE total

\* totalSize after the loop body's accumulation.
NextTotalSize(total, ho) ==
    LET payloadLength == ho.header.payloadLength
        headerSize == ho.offset - total
    IN  IF payloadLength # Undefined
        THEN total + payloadLength + headerSize
        ELSE total

\* Variant: a failure is swallowed and the entries parsed so far come back.
ThrowPartial(e) ==
    /\ pc' = "failed"
    /\ error' = e
    /\ returned' = headerOffsets

\* An exception thrown by parseHeader leaves parse: nothing is returned.
Throw(e) ==
    /\ pc' = "failed"
    /\ error' = e
    /\ returned' = <<>>

\* return headerOffsets
Return ==
    /\ pc' = "done"
    /\ returned' = headerOffsets
    /\ error' = error

\* Entry of parse up to the loop: parse the header at offset 0.
ParseFirst ==
    /\ pc = "call"
    /\ LET r == parseHeader(buf, 0)
       IN  IF r.ok
           THEN /\ headerOffset' = HeaderOffset(r)
                /\ headerOffsets' = <<HeaderOffset(r)>>
                /\ starts' = <<0>>
                /\ pc' = "loop"
                /\ UNCHANGED <<returned, error>>
           ELSE /\ Throw(r.error)
                /\ UNCHANGED <<headerOffset, headerOffsets, starts>>
    /\ UNCHANGED <<buf, totalSize>>
    /\ UNCHANGED settingsVars
    /\ UNCHANGED fifoVars

\* One loop iteration that finds bytes left and parses the next header.
LoopParseNext ==
    /\ pc = "loop"
    /\ LoopCond(headerOffset)
    /\ LET total == NextTotalSize(totalSize, headerOffset)
           r == parseHeader(buf, total)
       IN  /\ total < Len(buf)
           /\ totalSize' = total
           /\ IF r.ok
              THEN /\ headerOffset' = HeaderOffset(r)
                   /\ headerOffsets' = Append(headerOffsets, HeaderOffset(r))
                   /\ starts' = Append(starts, total)
                   /\ UNCHANGED <<pc, returned, error>>
              ELSE /\ Throw(r.error)
                   /\ UNCHANGED <<headerOffset, headerOffsets, starts>>
    /\ UNCHANGED buf
    /\ UNCHANGED settingsVars
    /\ UNCHANGED fifoVars

\* One loop iteration that finds no bytes left: break, then return.
LoopBreak ==
    /\ pc = "loop"
    /\ LoopCond(headerOffset)
    /\ LET total == NextTotalSize(totalSize, headerOffset)
       IN  /\ ~(total < Len(buf))
           /\ totalSize' = total
    /\ Return
    /\ UNCHANGED <<buf, headerOffset, headerOffsets, starts>>
    /\ UNCHANGED settingsVars
    /\ UNCHANGED fifoVars

\* The loop condition is false: return.
LoopExit ==
    /\ pc = "loop"
    /\ ~LoopCond(headerOffset)
    /\ Return
    /\ UNCHANGED <<buf, headerOffset, headerOffsets, totalSize, starts>>
    /\ UNCHANGED settingsVars
    /\ UNCHANGED fifoVars

(***************************************************************************)
(* Input datagrams: up to MaxPackets packets back-to-back, cut anywhere.   *)
(***************************************************************************)
Fill(n, x) == [i \in 1..n |-> x]

\* A long-header packet as laid out on the wire: plen is the encoded
\* payload length, payload the bytes that actually follow the header.
LongPacket(typeByte, version, conLengths, plen, payload) ==
    <<typeByte>> \o version \o <<conLengths>>
        \o Fill(conLength(conLengths \div 16), 17)
        \o Fill(conLength(conLengths % 16), 18)
        \o plen \o <<0, 0, 0, 7>> \o payload

\* A version-negotiation packet: no payload length, no packet number.
NegotiationPacket(typeByte, conLengths, versions) ==
    <<typeByte>> \o <<0, 0, 0, 0>> \o <<conLengths>>
        \o Fill(conLength(conLengths \div 16), 17)
        \o Fill(conLength(conLengths % 16), 18)
        \o versions

\* A short-header packet: first byte, length byte, n - 1 further
\* connection-ID bytes, w packet-number bytes, payload.
ShortPacket(first, n, w, payload) ==
    <<first, n>> \o Fill(IF n > 0 THEN n - 1 ELSE 0, 19) \o Fill(w, 9) \o payload

LongPackets ==
    { LongPacket(255 - 64, <<0, 0, 0, 1>>, 0, <<P[1]>>, Fill(P[2], 0)) :
          P \in {<<d, a>> \in (0..MaxPayload) \X (0..MaxPayload) :
                     a = d \/ a = MaxPayload - d} }
    \cup { LongPacket(128, <<0, 0, 0, 1>>, 18, <<MaxPayload>>, Fill(MaxPayload, 0)),
           LongPacket(128, <<0, 0, 0, 1>>, 0, <<64, MaxPayload>>, Fill(MaxPayload, 0)),
           NegotiationPacket(128, 0, <<>>),
           NegotiationPacket(128, 33, <<0, 0, 0, 1>>) }

ShortPackets ==
    { ShortPacket(t, 4, 2 ^ t, <<0>>) : t \in 0..2 }
    \cup { ShortPacket(3, 4, 1, <<>>),
           ShortPacket(69, 4, 2, <<>>),
           ShortPacket(0, 0, 1, <<>>),
           ShortPacket(0, 2, 1, <<>>) }

Packets == LongPackets \cup ShortPackets

RECURSIVE Concats(_)
Concats(k) ==
    IF k = 0 THEN {<<>>}
    ELSE {c \o p : c \in Concats(k - 1), p \in Packets}

Prefixes(d) == {SubSeq(d, 1, n) : n \in 0..Len(d)}

Datagrams == UNION {Prefixes(d) : d \in UNION {Concats(k) : k \in 1..MaxPackets}}

(***************************************************************************)
(* VLIE encoding (the codec's source is not part of the frame file).       *)
(* Values are kept below 2^31; the 8-byte form is reached from 2^30 on.    *)
(***************************************************************************)
\* VLIE.getEncodedByteLength(value)
getEncodedByteLength(v) ==
    IF v < 64 THEN 1
    ELSE IF v < 16384 THEN 2
    ELSE IF v < 1073741824 THEN 4
    ELSE 8

RECURSIVE ToBytes(_, _)
\* The n-byte big-endian form of v.
ToBytes(v, n) ==
    IF n = 0 THEN <<>> ELSE ToBytes(v \div 256, n - 1) \o <<v % 256>>

\* VLIE.encode(value): the smallest of the 6, 14, 30 and 62 bit forms that
\* holds the value, its selector in the top 2 bits of the first byte.
VLIEencode(v) ==
    LET selector == IF v < 2 ^ 6 THEN 0
                    ELSE IF v < 2 ^ 14 THEN 1
                    ELSE IF v < 2 ^ 30 THEN 2
                    ELSE 3
        bytes == ToBytes(v, 2 ^ selector)
    IN  [bytes EXCEPT ![1] = @ + 64 * selector]

\* Http3FrameType.SETTINGS
SETTINGS == 4

(***************************************************************************)
(* Http3SettingsFrame                                                      *)
(***************************************************************************)
\* interface Http3Setting
Http3Setting(identifier, value) == [identifier |-> identifier, value |-> value]

\* source.copy(target, targetStart): copies what fits into the target.
copyInto(target, source, targetStart) ==
    [i \in 1..Len(target) |->
        IF i > targetStart /\ i - targetStart <= Len(source)
        THEN source[i - targetStart]
        ELSE target[i]]

\* Variant: only the identifiers are counted.
RECURSIVE getPayloadLengthIdentifiers(_)
getPayloadLengthIdentifiers(parameters) ==
    IF parameters = <<>> THEN 0
    ELSE getPayloadLengthIdentifiers(SubSeq(parameters, 1, Len(parameters) - 1))
             + getEncodedByteLength(parameters[Len(parameters)].identifier)

RECURSIVE getPayloadLength(_)
getPayloadLength(parameters) ==
    IF parameters = <<>> THEN 0
    ELSE getPayloadLength(SubSeq(parameters, 1, Len(parameters) - 1))
             + getEncodedByteLength(parameters[Len(parameters)].identifier)
             + getEncodedByteLength(parameters[Len(parameters)].value)

settingsParameterToBuffer(param) ==
    VLIEencode(param.identifier) \o VLIEencode(param.value)

RECURSIVE payloadtoBuffer(_)
payloadtoBuffer(parameters) ==
    IF parameters = <<>> THEN <<>>
    ELSE payloadtoBuffer(SubSeq(parameters, 1, Len(parameters) - 1))
             \o settingsParameterToBuffer(parameters[Len(parameters)])

toBuffer(parameters) ==
    LET encodedLength == VLIEencode(getPayloadLength(parameters))
        buffer == Fill(Len(encodedLength) + 1 + getPayloadLength(parameters), 0)
        withLength == copyInto(buffer, encodedLength, 0)
        withType == [withLength EXCEPT ![Len(encodedLength) + 1] = SETTINGS]
    IN  copyInto(withType, payloadtoBuffer(parameters), Len(encodedLength) + 1)

\* Variant: the second VarInt is decoded at the first one's offset again.
parseParameterSameOffset(buffer, offset) ==
    LET first == VLIEdecode(buffer, offset)
    IN  IF ~first.ok THEN Fail(first.error)
        ELSE LET second == VLIEdecode(buffer, offset)
             IN  IF ~second.ok THEN Fail(second.error)
                 ELSE [ok |-> TRUE,
                       param |-> Http3Setting(first.value, second.value),
                       offset |-> second.offset]

parseParameter(buffer, offset) ==
    LET first == VLIEdecode(buffer, offset)
    IN  IF ~first.ok THEN Fail(first.error)
        ELSE LET second == VLIEdecode(buffer, first.offset)
             IN  IF ~second.ok THEN Fail(second.error)
                 ELSE [ok |-> TRUE,
                       param |-> Http3Setting(first.value, second.value),
                       offset |-> second.offset]

\* frame.toBuffer()
ToBuffer ==
    /\ spc = "new"
    /\ frame' = toBuffer(settingsParameters)
    /\ spc' = "serialized"
    /\ UNCHANGED <<settingsParameters, settingsBuffer, params, poffset>>
    /\ UNCHANGED parserVars
    /\ UNCHANGED fifoVars

\* Http3SettingsFrame.fromPayload(buffer) is entered with the payload of the
\* frame, or with a payload cut short on the way.
FromPayload ==
    /\ spc = "serialized"
    /\ \E n \in 0..Len(payloadtoBuffer(settingsParameters)) :
           settingsBuffer' = SubSeq(payloadtoBuffer(settingsParameters), 1, n)
    /\ params' = <<>>
    /\ poffset' = 0
    /\ spc' = "parsing"
    /\ UNCHANGED <<settingsParameters, frame>>
    /\ UNCHANGED parserVars
    /\ UNCHANGED fifoVars

\* One iteration of the loop of parseParameters.
ParseParametersStep ==
    /\ spc = "parsing"
    /\ poffset < Len(settingsBuffer)
    /\ LET r == parseParameter(settingsBuffer, poffset)
       IN  IF r.ok
           THEN /\ params' = Append(params, r.param)
                /\ poffset' = r.offset
                /\ spc' = "parsing"
           ELSE /\ spc' = "failed"
                /\ UNCHANGED <<params, poffset>>
    /\ UNCHANGED <<settingsParameters, frame, settingsBuffer>>
    /\ UNCHANGED parserVars
    /\ UNCHANGED fifoVars

\* The loop of parseParameters ends: return [params, offset].
ParseParametersReturn ==
    /\ spc = "parsing"
    /\ ~(poffset < Len(settingsBuffer))
    /\ spc' = "parsed"
    /\ UNCHANGED <<settingsParameters, frame, settingsBuffer, params, poffset>>
    /\ UNCHANGED parserVars
    /\ UNCHANGED fifoVars

(***************************************************************************)
(* Input settings: up to MaxSettings parameters, values on both sides of   *)
(* every length boundary of the encoding.                                  *)
(***************************************************************************)
Settings ==
    { Http3Setting(1, 0), Http3Setting(63, 64), Http3Setting(64, 16383),
      Http3Setting(16384, 2 ^ 30 - 1), Http3Setting(6, 2 ^ 30) }

RECURSIVE SettingLists(_)
SettingLists(k) ==
    IF k = 0 THEN {<<>>}
    ELSE SettingLists(k - 1)
             \cup {Append(l, x) : l \in {m \in SettingLists(k - 1) : Len(m) = k - 1},
                                  x \in Settings}

(***************************************************************************)
(* Bignum stream IDs and the dependency tree (their sources are not part   *)
(* of the scheme's file).  A Bignum is an object: two Bignums of the same  *)
(* value are the same for === only when they are the same object.          *)
(***************************************************************************)
Streams == 1..MaxStreams

\* The object a stream's node holds, and another object of the same value.
OwnObject == 0
OtherObject == 1

Bignum(value, object) == [value |-> value, object |-> object]

\* The value undefined of tailStreamID.
UndefinedStreamID == Bignum(Undefined, OwnObject)

\* Parent of a stream directly under the root, and of a stream with no node.
Root == 0
Detached == -2

\* Http3RequestNode.getStreamID(): the node's own Bignum.
getStreamID(stream) == Bignum(stream, OwnObject)

\* node.getParent()
getParent(tree, stream) == tree[stream]

\* The tree gets a node for a new request stream, directly under the root.
addRequestStream(tree, stream) == [tree EXCEPT ![stream] = Root]

\* dependencyTree.moveStreamToRoot(streamID): nodes are found by value.
moveStreamToRoot(tree, streamID) == [tree EXCEPT ![streamID.value] = Root]

\* dependencyTree.moveStreamToStream(streamID, parentStreamID)
moveStreamToStream(tree, streamID, parentStreamID) ==
    [tree EXCEPT ![streamID.value] = parentStreamID.value]

\* The node leaves the tree, its children pass to its parent.
removeRequestStream(tree, stream) ==
    [x \in Streams |->
        IF x = stream THEN Detached
        ELSE IF tree[x] = stream THEN tree[stream]
        ELSE tree[x]]

\* new Http3PriorityFrame(prioritizedType, dependencyType, streamID, dependencyID)
Http3PriorityFrame(prioritizedType, dependencyType, streamID, dependencyID) ==
    [prioritizedType |-> prioritizedType, dependencyType |-> dependencyType,
     streamID |-> streamID, dependencyID |-> dependencyID]

\* No frame returned yet.
NoPriorityFrame ==
    Http3PriorityFrame("NONE", "NONE", UndefinedStreamID, UndefinedStreamID)

(***************************************************************************)
(* Http3FIFOScheme                                                         *)
(***************************************************************************)
\* The listener of REMOVING_NODE, run while the node is still in the tree.
\* It leaves the new tail, or fails for a node that is no request node.
onRemovingNode(tree, tail, stream, isRequestNode) ==
    IF isRequestNode
    THEN IF getStreamID(stream) = tail
         THEN LET parent == getParent(tree, stream)
              IN  IF parent # Root
                  THEN [ok |-> TRUE, tail |-> getStreamID(parent)]
                  ELSE [ok |-> TRUE, tail |-> UndefinedStreamID]
         ELSE [ok |-> TRUE, tail |-> tail]
    ELSE [ok |-> FALSE, tail |-> tail]

\* Variant: the tail is left as it was.
applySchemeTailKept(tree, tail, streamID) ==
    IF tail = UndefinedStreamID
    THEN [tree |-> moveStreamToRoot(tree, streamID),
          frame |-> Http3PriorityFrame("REQUEST_STREAM", "ROOT", streamID,
                                       UndefinedStreamID),
          tail |-> tail]
    ELSE [tree |-> moveStreamToStream(tree, streamID, tail),
          frame |-> Http3PriorityFrame("REQUEST_STREAM", "REQUEST_STREAM",
                                       streamID, tail),
          tail |-> tail]

applyScheme(tree, tail, streamID) ==
    IF tail = UndefinedStreamID
    THEN [tree |-> moveStreamToRoot(tree, streamID),
          frame |-> Http3PriorityFrame("REQUEST_STREAM", "ROOT", streamID,
                                       UndefinedStreamID),
          tail |-> streamID]
    ELSE [tree |-> moveStreamToStream(tree, streamID, tail),
          frame |-> Http3PriorityFrame("REQUEST_STREAM", "REQUEST_STREAM",
                                       streamID, tail),
          tail |-> streamID]

\* A request stream is opened: the tree gets its node.
AddStream ==
    /\ \E stream \in Streams :
           /\ dependencyTree[stream] = Detached
           /\ stream \notin removed
           /\ dependencyTree' = addRequestStream(dependencyTree, stream)
    /\ UNCHANGED <<tailStreamID, priorityFrame, applied, removed, handled>>
    /\ UNCHANGED <<parserVars, settingsVars>>

\* scheme.applyScheme(streamID, fileExtension) for a stream of the tree that
\* was not scheduled before, or once more for the stream that is the tail;
\* the caller hands over the node's Bignum or another Bignum of the same
\* value.  The tree moves a node only under a node it has.
ApplyScheme ==
    /\ \E stream \in Streams, object \in {OwnObject, OtherObject} :
           /\ dependencyTree[stream] # Detached
           /\ Len(applied) < MaxApplies
           /\ \/ \A i \in 1..Len(applied) : applied[i] # stream
              \/ tailStreamID.value = stream
           /\ tailStreamID # UndefinedStreamID =>
                  dependencyTree[tailStreamID.value] # Detached
           /\ LET r == applyScheme(dependencyTree, tailStreamID,
                                   Bignum(stream, object))
              IN  /\ dependencyTree' = r.tree
                  /\ priorityFrame' = r.frame
                  /\ tailStreamID' = r.tail
           /\ applied' = Append(applied, stream)
    /\ UNCHANGED <<removed, handled>>
    /\ UNCHANGED <<parserVars, settingsVars>>

\* The tree removes the node of a request stream: REMOVING_NODE is emitted,
\* the listener runs, then the node leaves the tree.
RemoveNode ==
    /\ \E stream \in Streams :
           /\ dependencyTree[stream] # Detached
           /\ onRemovingNode(dependencyTree, tailStreamID, stream, TRUE).ok
           /\ tailStreamID' =
                  onRemovingNode(dependencyTree, tailStreamID, stream, TRUE).tail
           /\ dependencyTree' = removeRequestStream(dependencyTree, stream)
           /\ removed' = removed \cup {stream}
    /\ UNCHANGED <<priorityFrame, applied, handled>>
    /\ UNCHANGED <<parserVars, settingsVars>>

\* scheme.handlePriorityFrame(priorityFrame, currentStreamID): the body is
\* empty, whatever frame and stream it is given.
HandlePriorityFrame ==
    /\ handled < MaxFrames
    /\ \E stream \in Streams, object \in {OwnObject, OtherObject} :
           dependencyTree[stream] # Detached
    /\ handled' = handled + 1
    /\ UNCHANGED <<dependencyTree, tailStreamID, priorityFrame, applied, removed>>
    /\ UNCHANGED <<parserVars, settingsVars>>

(***************************************************************************)
(* Specification                                                           *)
(***************************************************************************)
\* The header parser before parse(b) is entered.
ParserAt(b, position) ==
    /\ buf = b
    /\ pc = position
    /\ headerOffsets = <<>>
    /\ headerOffset = NoHeaderOffset
    /\ totalSize = 0
    /\ starts = <<>>
    /\ returned = <<>>
    /\ error = "none"

\* The settings frame with the given parameters, nothing serialized or parsed.
SettingsAt(parameters, position) ==
    /\ settingsParameters = parameters
    /\ spc = position
    /\ frame = <<>>
    /\ settingsBuffer = <<>>
    /\ params = <<>>
    /\ poffset = 0

\* The scheme after its constructor: an empty tree, no tail.
FifoNew ==
    /\ dependencyTree = [stream \in Streams |-> Detached]
    /\ tailStreamID = UndefinedStreamID
    /\ priorityFrame = NoPriorityFrame
    /\ applied = <<>>
    /\ removed = {}
    /\ handled = 0

Init ==
    /\ \E b \in Datagrams : ParserAt(b, "call")
    /\ SettingsAt(<<>>, "idle")
    /\ FifoNew

Next == ParseFirst \/ LoopParseNext \/ LoopBreak \/ LoopExit

Spec == Init /\ [][Next]_vars

SettingsInit ==
    /\ ParserAt(<<>>, "idle")
    /\ \E l \in SettingLists(MaxSettings) : SettingsAt(l, "new")
    /\ FifoNew

SettingsNext == ToBuffer \/ FromPayload \/ ParseParametersStep \/ ParseParametersReturn

SettingsSpec == SettingsInit /\ [][SettingsNext]_vars

FifoInit ==
    /\ ParserAt(<<>>, "idle")
    /\ SettingsAt(<<>>, "idle")
    /\ FifoNew

FifoNext == AddStream \/ ApplyScheme \/ RemoveNode \/ HandlePriorityFrame

FifoSpec == FifoInit /\ [][FifoNext]_vars

(***************************************************************************)
(* Vocabulary of the properties                                            *)
(***************************************************************************)
Entries == 1..Len(headerOffsets)

IsLong(i) == headerOffsets[i].header.headerType = "Long"
IsShort(i) == headerOffsets[i].header.headerType = "Short"
IsNegotiation(i) == IsLong(i) /\ IsVersionNegotationFlag(headerOffsets[i].header.version)

\* The bytes [from, to) of the datagram, when that is a span of the datagram.
IsSpan(bytes, from, to) ==
    /\ from <= to
    /\ to <= Len(buf)
    /\ bytes = SubSeq(buf, from + 1, to)

\* Width in bytes selected by a short header's 2-bit selector.
Width(type) == 2 ^ type

\* C1: every long header parsed from start offset s has offset
\* s + 1 + 4 + 1 + destLen + srcLen (+ L + 4 when the version is not the
\* negotiation sentinel, L the encoded length of the payload-length VarInt),
\* and its raw header span is exactly the bytes [s, offset) of the buffer.
C1_LongOffsetAndSpan ==
    \A i \in Entries : IsLong(i) =>
        LET h == headerOffsets[i].header
            s == starts[i]
            o5 == s + 1 + 4 + 1 + h.destLength + h.srcLength
            expected == IF IsNegotiation(i) THEN o5
                        ELSE o5 + 2 ^ (readUInt8(buf, o5) \div 64) + 4
        IN  /\ headerOffsets[i].offset = expected
            /\ IsSpan(h.parsedBuffer, s, headerOffsets[i].offset)

\* C2: every short header parsed from start offset s takes the n bytes that
\* follow the length byte at s + 1 as the destination connection ID, has
\* offset s + 2 + n + w, and its raw header span is [s, offset).
C2_ShortLayout ==
    \A i \in Entries : IsShort(i) =>
        LET h == headerOffsets[i].header
            s == starts[i]
            n == readUInt8(buf, s + 1)
        IN  /\ IsSpan(h.destConnectionID, s + 2, s + 2 + n)
            /\ headerOffsets[i].offset = s + 2 + n + Width(h.type)
            /\ IsSpan(h.parsedBuffer, s, headerOffsets[i].offset)

\* C3: no long header is returned whose offset exceeds the buffer length or
\* whose version, connection IDs or packet number hold fewer bytes than
\* their declared width.
C3_LongNeverTruncated ==
    \A i \in Entries : IsLong(i) =>
        LET h == headerOffsets[i].header
        IN  /\ headerOffsets[i].offset <= Len(buf)
            /\ Len(h.version) = 4
            /\ Len(h.destConnectionID) = h.destLength
            /\ Len(h.srcConnectionID) = h.srcLength
            /\ (h.packetNumber # UndefinedBytes => Len(h.packetNumber) = 4)

\* C4: no short header is returned whose offset exceeds the buffer length,
\* whose connection-ID bytes are not bytes of the input buffer, or whose
\* packet number is shorter than the selected width.
C4_ShortNeverTruncated ==
    \A i \in Entries : IsShort(i) =>
        LET h == headerOffsets[i].header
        IN  /\ headerOffsets[i].offset <= Len(buf)
            /\ \E k \in 0..Len(buf) : IsSpan(h.destConnectionID, k, k + h.destLength)
            /\ Len(h.packetNumber) = Width(h.type)

\* The datagram is exactly two long-header packets with payload lengths,
\* the first payload ending where the second header starts and the second
\* payload ending with the datagram.
TwoLongBackToBack ==
    /\ InRange(buf, 0)
    /\ readUInt8(buf, 0) >= 128
    /\ LET r1 == parseLongHeader(buf, 0)
       IN  /\ r1.ok
           /\ r1.header.payloadLength # Undefined
           /\ LET k == r1.offset + r1.header.payloadLength
              IN  /\ InRange(buf, k)
                  /\ readUInt8(buf, k) >= 128
                  /\ LET r2 == parseLongHeader(buf, k)
                     IN  /\ r2.ok
                         /\ r2.header.payloadLength # Undefined
                         /\ r2.offset + r2.header.payloadLength = Len(buf)

\* C5 as stated: for two back-to-back long-header packets parse returns
\* exactly two entries and the second entry's offset equals the first
\* entry's offset plus the first entry's payload length.
C5_SecondOffsetAsStated ==
    (pc = "done" /\ TwoLongBackToBack) =>
        /\ Len(returned) = 2
        /\ returned[2].offset = returned[1].offset + returned[1].header.payloadLength

\* C5 amended: for two back-to-back long-header packets parse succeeds with
\* exactly two entries; the second header is parsed starting at the first
\* entry's offset plus the first entry's payload length, and the second
\* entry's offset is that start plus the size of the second header.
C5_SecondHeaderStart ==
    TwoLongBackToBack =>
        /\ pc # "failed"
        /\ pc = "done" =>
            /\ Len(returned) = 2
            /\ starts[2] = returned[1].offset + returned[1].header.payloadLength
            /\ returned[2].offset = starts[2] + Len(returned[2].header.parsedBuffer)
            /\ returned[2].offset > returned[1].offset + returned[1].header.payloadLength

C5_Witness ==
    /\ pc = "done"
    /\ TwoLongBackToBack
    /\ Len(returned) = 2
    /\ returned[1].header.payloadLength > 0

\* The datagram is a long-header packet whose payload ends where a
\* parseable short header starts.
LongThenShort ==
    /\ InRange(buf, 0)
    /\ readUInt8(buf, 0) >= 128
    /\ LET r1 == parseLongHeader(buf, 0)
       IN  /\ r1.ok
           /\ r1.header.payloadLength # Undefined
           /\ LET k == r1.offset + r1.header.payloadLength
              IN  /\ InRange(buf, k)
                  /\ readUInt8(buf, k) < 128
                  /\ parseShortHeader(buf, k).ok

\* C6: a short-header entry is always the last entry: once a short header
\* has been parsed no further header is parsed (and no further parse is
\* attempted), whatever follows; a long header followed by a short header
\* yields exactly two entries.
C6_ShortIsLast ==
    /\ \A i \in Entries : IsShort(i) => (i = Len(headerOffsets) /\ pc # "failed")
    /\ (pc = "done" /\ LongThenShort) => (Len(returned) = 2 /\ IsShort(2))

C6_Witness ==
    /\ pc = "done"
    /\ LongThenShort
    /\ Len(returned) = 2
    /\ returned[2].header.headerType = "Short"
    /\ returned[2].header.destLength = 4
    /\ returned[2].offset < Len(buf)

\* C7: a long header with the negotiation sentinel version has neither
\* payload length nor packet number, its offset is s + 6 + destLen + srcLen,
\* and it is the last entry: no header is parsed (or attempted) after it.
C7_NegotiationShape ==
    \A i \in Entries : IsNegotiation(i) =>
        LET h == headerOffsets[i].header
        IN  /\ h.payloadLength = Undefined
            /\ h.packetNumber = UndefinedBytes
            /\ headerOffsets[i].offset = starts[i] + 6 + h.destLength + h.srcLength
            /\ i = Len(headerOffsets)
            /\ pc # "failed"

C7_Witness ==
    /\ pc = "done"
    /\ Len(returned) = 2
    /\ IsNegotiation(2)
    /\ returned[2].header.destLength > 0
    /\ returned[2].offset < Len(buf)

\* C8: every loop iteration strictly increases the cumulative counter, and
\* the number of parsed headers never exceeds the datagram length.
C8_CounterIncreases ==
    [][(pc = "loop" /\ LoopCond(headerOffset)) =>
          (totalSize' > totalSize /\ Len(headerOffsets') <= Len(buf))]_vars

C8_Witness ==
    /\ pc = "loop"
    /\ Len(headerOffsets) = 2
    /\ LoopCond(headerOffset)
    /\ headerOffsets[1].header.payloadLength = 0

\* C9: a failed parse returns nothing (no partial entry list), whichever
\* header failed, and no step changes the input buffer.
C9_NoPartialResult ==
    /\ [](pc = "failed" => (returned = <<>> /\ error # "none"))
    /\ [][buf' = buf]_vars

C9_Witness ==
    /\ pc = "failed"
    /\ Len(headerOffsets) >= 1
    /\ returned = <<>>

\* C10: for selector values 0, 1 and 2 the packet number read has exactly
\* 1, 2 and 4 bytes, and the offset advances past the connection ID by
\* that same number of bytes.
C10_ShortWidths ==
    \A i \in Entries : (IsShort(i) /\ headerOffsets[i].header.type \in {0, 1, 2}) =>
        LET h == headerOffsets[i].header
            w == CASE h.type = 0 -> 1 [] h.type = 1 -> 2 [] h.type = 2 -> 4
        IN  /\ Len(h.packetNumber) = w
            /\ headerOffsets[i].offset = starts[i] + 1 + h.destLength + w

\* The offset of the header whose parsing failed (parse at 0, then at totalSize).
FailStart == totalSize

\* The buffer holds the failed short header in full, whatever its width: the
\* first byte, the length byte, the connection ID and four more bytes.
SufficientlyLong ==
    /\ InRange(buf, FailStart + 1)
    /\ readUInt8(buf, FailStart) < 128
    /\ Len(buf) >= FailStart + 2 + readUInt8(buf, FailStart + 1) + 4

\* C11: the invalid-packet-number-width failure is unreachable: each of the
\* four values of the masked 2-bit selector maps to a recognized width, so
\* short-header parsing of a sufficiently long buffer never fails on account
\* of the selector.
C11_WidthFailureUnreachable ==
    (pc = "failed" /\ SufficientlyLong) => error # "InvalidPacketNumberWidth"

\* C12: in every long header the destination length comes from the high
\* nibble and the source length from the low nibble of the byte at s + 5
\* (0 gives 0, n gives n + 3), both lie in {0} or 4..18, and the
\* destination ID bytes are those right after that byte, the source ID
\* bytes those right after the destination ID.
C12_ConnectionIDLengths ==
    \A i \in Entries : IsLong(i) =>
        LET h == headerOffsets[i].header
            s == starts[i]
            c == readUInt8(buf, s + 5)
            hi == c \div 16
            lo == c % 16
        IN  /\ h.destLength = (IF hi = 0 THEN 0 ELSE hi + 3)
            /\ h.srcLength = (IF lo = 0 THEN 0 ELSE lo + 3)
            /\ h.destLength \in {0} \cup (4..18)
            /\ h.srcLength \in {0} \cup (4..18)
            /\ h.destConnectionID = slice(buf, s + 6, s + 6 + h.destLength)
            /\ h.srcConnectionID =
                   slice(buf, s + 6 + h.destLength, s + 6 + h.destLength + h.srcLength)

C12_Witness ==
    /\ pc = "done"
    /\ Len(returned) = 2
    /\ IsLong(2)
    /\ returned[2].header.destLength = 4
    /\ returned[2].header.srcLength = 5
    /\ returned[2].header.destConnectionID = <<17, 17, 17, 17>>
    /\ returned[2].header.srcConnectionID = <<18, 18, 18, 18, 18>>

\* C13: a header parsed at a byte with bit 7 set is a long header whose
\* subtype is that byte & 0x7F; one parsed at a byte with bit 7 clear is a
\* short header; every header is exactly one of the two.
C13_HeaderForm ==
    \A i \in Entries :
        LET h == headerOffsets[i].header
            b == readUInt8(buf, starts[i])
        IN  /\ h.headerType \in {"Long", "Short"}
            /\ b >= 128 => (h.headerType = "Long" /\ h.type = b % 128)
            /\ b < 128 => h.headerType = "Short"

C13_Witness ==
    /\ pc = "done"
    /\ Len(returned) = 2
    /\ IsLong(1)
    /\ returned[1].header.type = 63
    /\ IsShort(2)

\* The byte b with its bits 5, 4 and 3 replaced by the 3-bit value m.
WithReserved(b, m) == b - ((b \div 8) % 8) * 8 + m * 8

\* The datagram with the bits 5, 4 and 3 of the byte at offset s replaced.
BufWithReserved(s, m) == [buf EXCEPT ![s + 1] = WithReserved(buf[s + 1], m)]

\* C14: a short header parses to the same key-phase bit, spin bit, width
\* selector, connection ID, packet number and offset whatever its bits 5, 4
\* and 3 are, and a short header that is rejected is rejected whatever
\* they are.
C14_ReservedBitsIgnored ==
    /\ \A i \in Entries : IsShort(i) =>
           \A m \in 0..7 :
               LET h == headerOffsets[i].header
                   r == parseHeader(BufWithReserved(starts[i], m), starts[i])
               IN  /\ r.ok
                   /\ r.header.headerType = "Short"
                   /\ r.offset = headerOffsets[i].offset
                   /\ r.header.keyPhaseBit = h.keyPhaseBit
                   /\ r.header.spinBit = h.spinBit
                   /\ r.header.type = h.type
                   /\ r.header.destConnectionID = h.destConnectionID
                   /\ r.header.packetNumber = h.packetNumber
    /\ (pc = "failed" /\ InRange(buf, FailStart) /\ readUInt8(buf, FailStart) < 128) =>
           \A m \in 0..7 :
               LET r == parseHeader(BufWithReserved(FailStart, m), FailStart)
               IN  ~r.ok /\ r.error = error

C14_Witness ==
    /\ pc = "done"
    /\ Len(returned) = 1
    /\ IsShort(1)
    /\ returned[1].header.keyPhaseBit
    /\ returned[1].header.spinBit
    /\ returned[1].offset <= Len(buf)

\* C16: a loop iteration on a long-header entry with offset o and payload
\* length P sets the counter to o + P; if o + P is below the datagram length
\* the next header is parsed starting exactly at o + P (appended, or its
\* failure leaves parse), otherwise parse returns the entries collected so
\* far and signals no error.
C16_SplitterStep ==
    [][(pc = "loop" /\ LoopCond(headerOffset)) =>
          LET t == headerOffset.offset + headerOffset.header.payloadLength
          IN  /\ totalSize' = t
              /\ t < Len(buf) =>
                    \/ /\ pc' = "loop"
                       /\ starts' = Append(starts, t)
                       /\ Len(headerOffsets') = Len(headerOffsets) + 1
                       /\ headerOffsets'[Len(headerOffsets')] = headerOffset'
                       /\ parseHeader(buf, t).ok
                       /\ headerOffset' = HeaderOffset(parseHeader(buf, t))
                    \/ /\ pc' = "failed"
                       /\ ~parseHeader(buf, t).ok
              /\ t >= Len(buf) =>
                    /\ pc' = "done"
                    /\ returned' = headerOffsets
                    /\ error' = "none"]_vars

C16_Witness ==
    /\ pc = "done"
    /\ Len(returned) = 2
    /\ LoopCond(headerOffset)
    /\ totalSize > Len(buf)
    /\ headerOffset.offset <= Len(buf)
    /\ error = "none"

\* C17: a successful parse returns a non-empty sequence whose first entry
\* was parsed at offset 0 and whose offsets strictly increase; an empty
\* datagram yields a failure.
C17_NonEmptyOrdered ==
    /\ pc = "done" =>
           /\ Len(returned) >= 1
           /\ starts[1] = 0
           /\ \A i \in 1..Len(returned) : \A j \in 1..Len(returned) :
                  i < j => /\ returned[i].offset < returned[j].offset
                           /\ starts[i] < starts[j]
    /\ (pc # "call" /\ Len(buf) = 0) => (pc = "failed" /\ returned = <<>>)

C17_Witness ==
    /\ pc = "done"
    /\ Len(returned) = 2
    /\ starts[2] > 0
    /\ IsShort(2)


(***************************************************************************)
(* Settings frame properties                                               *)
(***************************************************************************)
\* The values handed to the VarInt codec when the frame is serialized.
EncodedValues ==
    {settingsParameters[i].identifier : i \in 1..Len(settingsParameters)}
        \cup {settingsParameters[i].value : i \in 1..Len(settingsParameters)}
        \cup {getPayloadLength(settingsParameters)}

\* The form of L bytes has 8L - 2 usable bits; every value of the model is
\* below 2^31 and fits the 62 bits of the 8-byte form.
Fits(v, L) == IF L = 8 THEN TRUE ELSE v < 2 ^ (8 * L - 2)

\* The least of the lengths 1, 2, 4, 8 whose usable bits hold v.
MinimalLength(v) ==
    CHOOSE L \in {1, 2, 4, 8} :
        Fits(v, L) /\ \A K \in {1, 2, 4, 8} : K < L => ~Fits(v, K)

\* The sum of the encoded lengths of all identifiers and values.
RECURSIVE SumOfEncodedLengths(_)
SumOfEncodedLengths(parameters) ==
    IF parameters = <<>> THEN 0
    ELSE Len(VLIEencode(parameters[1].identifier))
             + Len(VLIEencode(parameters[1].value))
             + SumOfEncodedLengths(Tail(parameters))

\* C15: encode(v) has exactly getEncodedByteLength(v) bytes, the minimal of
\* 1, 2, 4, 8, and toBuffer returns exactly len(encode(P)) + 1 + P bytes: the
\* length VarInt, the frame type byte, then the whole payload, where P is the
\* sum of the encoded lengths of all identifiers and values.
C15_FrameLayout ==
    /\ \A v \in EncodedValues :
           /\ Len(VLIEencode(v)) = getEncodedByteLength(v)
           /\ Len(VLIEencode(v)) = MinimalLength(v)
    /\ spc # "new" /\ spc # "idle" =>
           LET P == SumOfEncodedLengths(settingsParameters)
           IN  /\ Len(frame) = Len(VLIEencode(P)) + 1 + P
               /\ frame = VLIEencode(P) \o <<SETTINGS>> \o payloadtoBuffer(settingsParameters)
               /\ Len(payloadtoBuffer(settingsParameters)) = P

\* A frame of two parameters, one of them in the 8-byte form, was serialized.
C15_Witness ==
    /\ spc = "serialized"
    /\ Len(settingsParameters) = 2
    /\ \E i \in 1..2 : getEncodedByteLength(settingsParameters[i].value) = 8
    /\ \E i \in 1..2 : getEncodedByteLength(settingsParameters[i].identifier) = 2
    /\ Len(frame) > 2

\* One step of the parse: an iteration advances the offset and stays inside
\* the buffer, the whole payload never fails, and the parse of the whole
\* payload returns the list that was serialized and the payload length.
RoundTripStep ==
    /\ (spc = "parsing" /\ spc' = "parsing") =>
           poffset' > poffset /\ poffset' <= Len(settingsBuffer)
    /\ (spc = "parsing" /\ settingsBuffer = payloadtoBuffer(settingsParameters)) =>
           spc' # "failed"
    /\ (spc' = "parsed" /\ settingsBuffer' = payloadtoBuffer(settingsParameters')) =>
           /\ params' = settingsParameters'
           /\ poffset' = Len(payloadtoBuffer(settingsParameters'))

\* C18: parseParameters applied to the bytes of payloadtoBuffer returns the
\* same ordered list of (identifier, value) pairs and ends with offset equal
\* to the payload length; the parse loop ends on every buffer, each decode
\* advancing the offset: the offset grows with every iteration and never
\* passes the end of the buffer, so a buffer of n bytes is left after at
\* most n iterations.
C18_RoundTrip == [][RoundTripStep]_vars

\* The whole payload of two parameters, forms of 1, 2, 4 and 8 bytes in it,
\* was parsed to its end.
C18_Witness ==
    /\ spc = "parsed"
    /\ Len(settingsParameters) = 2
    /\ settingsBuffer = payloadtoBuffer(settingsParameters)
    /\ Len(params) = 2
    /\ \E i \in 1..2 : settingsParameters[i].value >= 2 ^ 30
    /\ poffset = Len(settingsBuffer)

(***************************************************************************)
(* FIFO scheme properties                                                  *)
(***************************************************************************)
\* The scheduled request streams that remain in the tree.
Chain ==
    {stream \in Streams :
        /\ dependencyTree[stream] # Detached
        /\ \E i \in 1..Len(applied) : applied[i] = stream}

\* The element of the chain that no element of the chain depends on.
IsLastOfChain(stream) ==
    /\ stream \in Chain
    /\ \A other \in Chain : dependencyTree[other] # stream

\* C19: after any sequence of applyScheme calls and REMOVING_NODE events for
\* request nodes, tailStreamID is undefined when no scheduled request stream
\* remains in the chain and otherwise identifies the last element of the
\* chain; it never identifies a stream whose node was removed from the tree.
C19_TailInvariant ==
    /\ Chain = {} => tailStreamID = UndefinedStreamID
    /\ Chain # {} =>
           /\ tailStreamID # UndefinedStreamID
           /\ IsLastOfChain(tailStreamID.value)
    /\ tailStreamID # UndefinedStreamID => tailStreamID.value \notin removed

\* The calls were on distinct streams.
Distinct(calls) ==
    \A i, j \in 1..Len(calls) : calls[i] = calls[j] => i = j

\* The stream of the latest applyScheme call.
LastApplied == applied[Len(applied)]

\* One applyScheme call: the stream goes under the root (no tail) or under
\* the tail, the frame says so, and the tail becomes the stream; with no
\* removal so far and distinct streams, the streams form one chain in call
\* order.
FifoStep ==
    applied' # applied =>
        LET s == applied'[Len(applied')]
        IN  /\ tailStreamID = UndefinedStreamID =>
                   /\ dependencyTree'[s] = Root
                   /\ priorityFrame'.prioritizedType = "REQUEST_STREAM"
                   /\ priorityFrame'.dependencyType = "ROOT"
                   /\ priorityFrame'.streamID.value = s
            /\ tailStreamID # UndefinedStreamID =>
                   /\ dependencyTree'[s] = tailStreamID.value
                   /\ priorityFrame'.prioritizedType = "REQUEST_STREAM"
                   /\ priorityFrame'.dependencyType = "REQUEST_STREAM"
                   /\ priorityFrame'.streamID.value = s
                   /\ priorityFrame'.dependencyID = tailStreamID
            /\ tailStreamID'.value = s
            /\ removed' = {} /\ Distinct(applied') =>
                   \A i \in 1..Len(applied') :
                       dependencyTree'[applied'[i]] =
                           IF i = 1 THEN Root ELSE applied'[i - 1]

\* C20: applyScheme(s) with no tail moves s under the root and returns a
\* frame with ROOT dependency; with a tail t it moves s under t and returns
\* a frame making s depend on request stream t; in both cases the tail
\* becomes s.  Hence k calls on distinct streams with no removals give one
\* linear chain in call order.
C20_FifoOrdering == [][FifoStep]_vars

\* Every stream was scheduled, none removed: a chain of MaxStreams streams,
\* the last call's frame depending on the stream scheduled before it.
C20_Witness ==
    /\ Len(applied) = MaxStreams
    /\ Distinct(applied)
    /\ removed = {}
    /\ priorityFrame.dependencyType = "REQUEST_STREAM"
    /\ priorityFrame.dependencyID.value = applied[Len(applied) - 1]
    /\ dependencyTree[applied[1]] = Root
    /\ tailStreamID.value = LastApplied

\* One REMOVING_NODE event or one handlePriorityFrame call: the removal of a
\* node that is not the tail's leaves the tail, the removal of the tail's
\* node leaves the parent's stream ID or, under the root, undefined; a
\* handled frame leaves the tail and the tree.
RemovalEffectStep ==
    /\ removed' # removed =>
           LET stream == CHOOSE x \in Streams : x \in removed' /\ x \notin removed
           IN  IF tailStreamID.value # stream
               THEN tailStreamID' = tailStreamID
               ELSE IF dependencyTree[stream] # Root
                    THEN tailStreamID'.value = dependencyTree[stream]
                    ELSE tailStreamID' = UndefinedStreamID
    /\ handled' # handled =>
           /\ tailStreamID' = tailStreamID
           /\ dependencyTree' = dependencyTree

\* C21: a REMOVING_NODE event for a request node that is not the tail leaves
\* tailStreamID unchanged; for the tail node it sets tailStreamID to the
\* parent's stream ID when the parent is a request node and to undefined
\* otherwise; handlePriorityFrame never changes tailStreamID or the tree.
C21_RemovalEffect == [][RemovalEffectStep]_vars

\* C22: for any sequence of applyScheme calls, a call for the current tail
\* included, applyScheme never moves a stream under itself and never returns
\* a priority frame whose prioritized stream and the stream it depends on
\* are the same.
C22_NoSelfDependency ==
    /\ \A stream \in Streams : dependencyTree[stream] # stream
    /\ priorityFrame.dependencyType = "REQUEST_STREAM" =>
           priorityFrame.streamID.value # priorityFrame.dependencyID.value

====
